---- MODULE Spec2Model ----
(***************************************************************************)
(* A model of interest_rate_prod.py: the zero-coupon-bond curve ZCB_curve  *)
(* and the forward-rate agreement FRA built on it.                        *)
(*                                                                         *)
(* Floating-point numbers are modelled as exact real numbers: a rational   *)
(* is the record [k |-> "rat", n, d] in lowest terms, and a real that is   *)
(* not rational (exp, log, an irrational power, and arithmetic on them) is *)
(* a term in normal form.  Rounding is not modelled.  Dates are day        *)
(* ordinals; a date string is the ordinal strptime would parse it to.      *)
(***************************************************************************)
EXTENDS Integers, Sequences, FiniteSets, TLC

VARIABLES curve, origin, fra, override, result

vars == <<curve, origin, fra, override, result>>

(***************************************************************************)
(* Bounds of the model.                                                    *)
(***************************************************************************)
\* the largest number of spine points of a curve
MaxLen == 2
\* set_price arguments are the rationals k/10 for k in 0..MaxPrice
MaxPrice == 1

(***************************************************************************)
(* Exact rational arithmetic.                                              *)
(***************************************************************************)
Abs(x) == IF x < 0 THEN -x ELSE x

RECURSIVE GCD(_, _)
GCD(a, b) == IF b = 0 THEN a ELSE GCD(b, a % b)

Rat(n, d) ==
    LET g == GCD(Abs(n), Abs(d))
        s == IF d < 0 THEN -1 ELSE 1
    IN  [k |-> "rat", n |-> (s * n) \div g, d |-> (s * d) \div g]

Int2R(i) == [k |-> "rat", n |-> i, d |-> 1]

Zero == Int2R(0)
One == Int2R(1)

IsRat(x) == x.k = "rat"

RAdd(a, b) ==
    LET g == GCD(a.d, b.d)
    IN  Rat(a.n * (b.d \div g) + b.n * (a.d \div g), a.d * (b.d \div g))

RNeg(a) == [k |-> "rat", n |-> -a.n, d |-> a.d]

RSub(a, b) == RAdd(a, RNeg(b))

RMul(a, b) ==
    LET g1 == GCD(Abs(a.n), b.d)
        g2 == GCD(Abs(b.n), a.d)
    IN  Rat((a.n \div g1) * (b.n \div g2), (a.d \div g2) * (b.d \div g1))

\* b is not zero
RDiv(a, b) == RMul(a, Rat(b.d, b.n))

RLt(a, b) == a.n * b.d < b.n * a.d

RLe(a, b) == a.n * b.d <= b.n * a.d

RECURSIVE IPow(_, _)
IPow(b, e) == IF e = 0 THEN 1 ELSE b * IPow(b, e - 1)

\* the integer r >= from with r^q = n, or -1 when n has no integer q-th root
RECURSIVE IntRootFrom(_, _, _)
IntRootFrom(n, q, from) ==
    IF IPow(from, q) >= n
    THEN IF IPow(from, q) = n THEN from ELSE -1
    ELSE IntRootFrom(n, q, from + 1)

IntRoot(n, q) == IntRootFrom(n, q, 0)

(***************************************************************************)
(* Real numbers: rationals and terms.  NaN stands for a non-finite float   *)
(* (inf or nan), which numpy returns, with a warning, where Python's own   *)
(* float arithmetic would raise.                                          *)
(***************************************************************************)
NaN == [k |-> "nan"]

IsNaN(x) == x.k = "nan"

Add(x, y) ==
    IF IsNaN(x) \/ IsNaN(y) THEN NaN
    ELSE IF IsRat(x) /\ IsRat(y) THEN RAdd(x, y)
    ELSE IF x = Zero THEN y
    ELSE IF y = Zero THEN x
    ELSE [k |-> "add", l |-> x, r |-> y]

Sub(x, y) ==
    IF IsNaN(x) \/ IsNaN(y) THEN NaN
    ELSE IF IsRat(x) /\ IsRat(y) THEN RSub(x, y)
    ELSE IF x = y THEN Zero
    ELSE IF y = Zero THEN x
    ELSE [k |-> "sub", l |-> x, r |-> y]

Mul(x, y) ==
    IF IsNaN(x) \/ IsNaN(y) THEN NaN
    ELSE IF IsRat(x) /\ IsRat(y) THEN RMul(x, y)
    ELSE IF x = Zero \/ y = Zero THEN Zero
    ELSE IF x = One THEN y
    ELSE IF y = One THEN x
    ELSE [k |-> "mul", l |-> x, r |-> y]

\* numpy's division: a zero divisor gives a non-finite value, not an error
Div(x, y) ==
    IF IsNaN(x) \/ IsNaN(y) \/ y = Zero THEN NaN
    ELSE IF IsRat(x) /\ IsRat(y) THEN RDiv(x, y)
    ELSE IF x = y THEN One
    ELSE IF x = Zero THEN Zero
    ELSE IF y = One THEN x
    ELSE IF x = One /\ y.k = "exp" THEN [k |-> "exp", x |-> RNeg(y.x)]
    ELSE IF x = One /\ y.k = "pow" THEN [k |-> "pow", b |-> y.b, e |-> RNeg(y.e)]
    ELSE [k |-> "div", l |-> x, r |-> y]

\* q^e for rationals q and e
RPow(q, e) ==
    IF e.d = 1
    THEN IF e.n >= 0 THEN Rat(IPow(q.n, e.n), IPow(q.d, e.n))
         ELSE IF q.n = 0 THEN NaN
         ELSE Rat(IPow(q.d, -e.n), IPow(q.n, -e.n))
    ELSE IF q.n < 0 THEN NaN
    ELSE IF q.n = 0 THEN (IF e.n > 0 THEN Zero ELSE NaN)
    ELSE IF q = One THEN One
    ELSE LET rn == IntRoot(q.n, e.d)
             rd == IntRoot(q.d, e.d)
         IN  IF rn >= 0 /\ rd >= 0
             THEN IF e.n >= 0 THEN Rat(IPow(rn, e.n), IPow(rd, e.n))
                  ELSE Rat(IPow(rd, -e.n), IPow(rn, -e.n))
             ELSE [k |-> "pow", b |-> q, e |-> e]

\* x ** e for a real x and a rational e
Pow(x, e) ==
    IF IsNaN(x) THEN NaN
    ELSE IF IsRat(x) THEN RPow(x, e)
    ELSE IF x.k = "pow" THEN RPow(x.b, RMul(x.e, e))
    ELSE IF x.k = "exp" THEN
        (IF e = Zero THEN One ELSE [k |-> "exp", x |-> RMul(x.x, e)])
    ELSE IF e = One THEN x
    ELSE IF e = Zero THEN One
    ELSE [k |-> "gpow", l |-> x, p |-> e]

\* numpy.exp
Exp(x) ==
    IF IsNaN(x) THEN NaN
    ELSE IF x = Zero THEN One
    ELSE IF IsRat(x) THEN [k |-> "exp", x |-> x]
    ELSE IF x.k = "log" THEN x.x
    ELSE [k |-> "gexp", l |-> x]

\* numpy.log
Log(x) ==
    IF IsNaN(x) THEN NaN
    ELSE IF IsRat(x) THEN
        (IF x.n <= 0 THEN NaN ELSE IF x = One THEN Zero ELSE [k |-> "log", x |-> x])
    ELSE IF x.k = "exp" THEN x.x
    ELSE IF x.k = "gexp" THEN x.l
    ELSE IF x.k = "pow" THEN Mul(x.e, [k |-> "log", x |-> x.b])
    ELSE [k |-> "glog", l |-> x]

(***************************************************************************)
(* Python values and outcomes.  An operation either returns a value or     *)
(* raises an exception.                                                    *)
(***************************************************************************)
None == [k |-> "None"]

Return(v) == [st |-> "returned", val |-> v]

Raise(e) == [st |-> "raised", exc |-> e]

\* a date string 'YYYY-mm-dd', by the ordinal of its date
Str(date) == [k |-> "str", date |-> date]

\* a Python int
IntV(i) == [k |-> "int", v |-> Int2R(i)]

\* a Python float of rational value q
FloatV(q) == [k |-> "float", v |-> q]

\* isinstance(x, (int, float))
IsNum(x) == x.k \in {"int", "float"}

\* a value that is neither a string nor a number
Other == [k |-> "other"]

DAYS_IN_YEAR == 365

Hundred == Int2R(100)

Year == Int2R(DAYS_IN_YEAR)

(***************************************************************************)
(* ZCB_curve                                                               *)
(***************************************************************************)
\* elementwise numpy arithmetic of __init__ on spine point i
YieldToDcf(r, T, compounding) ==
    IF compounding # Zero
    THEN Div(One, Pow(Add(One, Div(Mul(r, compounding), Hundred)), RDiv(T, compounding)))
    ELSE Exp(Div(Mul(Sub(Zero, r), T), Hundred))

DcfToYield(dcf, T, compounding) ==
    IF compounding # Zero
    THEN Div(Sub(Pow(Div(One, dcf), RDiv(compounding, T)), One), compounding)
    ELSE Div(Log(Div(One, dcf)), T)

\* ZCB_curve without the line that resets r_s_type to 'yield'
ZCB_curve_keepkind(t, T_s, r_s, r_s_type, compounding) ==
    IF Len(T_s) # Len(r_s) THEN Raise("AssertionError")
    ELSE IF r_s_type \notin {"yield", "discount factor"} THEN Raise("AssertionError")
    ELSE IF r_s_type = "yield"
    THEN Return([k |-> "ZCB_curve", t |-> t, T_s |-> T_s, r_s |-> r_s,
                 r_s_type |-> r_s_type, compounding |-> compounding,
                 dcf |-> [i \in 1..Len(T_s) |-> YieldToDcf(r_s[i], T_s[i], compounding)]])
    ELSE Return([k |-> "ZCB_curve", t |-> t, T_s |-> T_s,
                 r_s |-> [i \in 1..Len(T_s) |-> DcfToYield(r_s[i], T_s[i], compounding)],
                 r_s_type |-> r_s_type, compounding |-> compounding,
                 dcf |-> r_s])

\* ZCB_curve(t, T_s, r_s, r_s_type, compounding): the object, or the exception
ZCB_curve(t, T_s, r_s, r_s_type, compounding) ==
    IF Len(T_s) # Len(r_s) THEN Raise("AssertionError")
    ELSE IF r_s_type \notin {"yield", "discount factor"} THEN Raise("AssertionError")
    ELSE IF r_s_type = "yield"
    THEN Return([k |-> "ZCB_curve", t |-> t, T_s |-> T_s, r_s |-> r_s,
                 r_s_type |-> r_s_type, compounding |-> compounding,
                 dcf |-> [i \in 1..Len(T_s) |-> YieldToDcf(r_s[i], T_s[i], compounding)]])
    ELSE Return([k |-> "ZCB_curve", t |-> t, T_s |-> T_s,
                 r_s |-> [i \in 1..Len(T_s) |-> DcfToYield(r_s[i], T_s[i], compounding)],
                 r_s_type |-> "yield", compounding |-> compounding,
                 dcf |-> r_s])

\* numpy.interp(x, xp, fp) for a non-empty, strictly increasing xp
interp(x, xp, fp) ==
    LET n == Len(xp)
    IN  IF RLe(x, xp[1]) THEN fp[1]
        ELSE IF RLe(xp[n], x) THEN fp[n]
        ELSE LET j == CHOOSE i \in 1..(n - 1) : RLe(xp[i], x) /\ RLt(x, xp[i + 1])
             IN  Add(Mul(Div(Sub(fp[j + 1], fp[j]), Sub(xp[j + 1], xp[j])),
                         Sub(x, xp[j])), fp[j])

\* get_curve(interpo, which): a lambda closing over self, or None
get_curve(self, interpo, which) ==
    IF which \notin {"yield", "discount factor"} THEN Raise("AssertionError")
    ELSE IF interpo = "linear"
    THEN Return([k |-> "lambda", which |-> which])
    ELSE Return(None)

\* calling what get_curve returned, at time x
Call(f, self, x) ==
    IF f.k # "lambda" THEN Raise("TypeError")
    ELSE IF Len(self.T_s) = 0 THEN Raise("ValueError")
    ELSE IF f.which = "yield" THEN Return(interp(x, self.T_s, self.r_s))
    ELSE Return(interp(x, self.T_s, self.dcf))

\* the type manipulation of t and T that opens get_discount_factor and
\* get_forward_rate: the two times in years, or the exception
TimePair(self, t, T) ==
    LET tBad == IF t.k = "str" THEN (IF self.t <= t.date THEN "" ELSE "AssertionError")
                ELSE IF IsNum(t) THEN (IF RLe(Zero, t.v) THEN "" ELSE "AssertionError")
                ELSE "TypeError"
        ty == IF t.k = "str" THEN Rat(t.date - self.t, DAYS_IN_YEAR) ELSE t.v
        TBad == IF T.k = "str"
                THEN (IF t.k # "str" THEN "UnboundLocalError"
                      ELSE IF t.date <= T.date THEN "" ELSE "AssertionError")
                ELSE IF IsNum(T) THEN (IF RLt(ty, T.v) THEN "" ELSE "AssertionError")
                ELSE "TypeError"
        Ty == IF T.k = "str" THEN Rat(T.date - self.t, DAYS_IN_YEAR) ELSE T.v
    IN  IF tBad # "" THEN Raise(tBad)
        ELSE IF TBad # "" THEN Raise(TBad)
        ELSE [st |-> "ok", t |-> ty, T |-> Ty]

get_discount_factor(self, t, T, interpo) ==
    LET p == TimePair(self, t, T)
        cur == get_curve(self, interpo, "discount factor").val
        cT == Call(cur, self, p.T)
        ct == Call(cur, self, p.t)
    IN  IF p.st = "raised" THEN p
        ELSE IF cT.st = "raised" THEN cT
        ELSE IF ct.st = "raised" THEN ct
        ELSE Return(Div(cT.val, ct.val))

get_forward_rate(self, t, T, interpo, compounding) ==
    LET p == TimePair(self, t, T)
        cur == get_curve(self, interpo, "yield").val
        cT == Call(cur, self, p.T)
        ct == Call(cur, self, p.t)
    IN  IF p.st = "raised" THEN p
        ELSE IF cT.st = "raised" THEN cT
        ELSE IF ct.st = "raised" THEN ct
        ELSE IF compounding # Zero
        THEN IF p.T = p.t THEN Raise("ZeroDivisionError")
             ELSE Return(Div(Sub(Pow(Div(
                     Pow(Add(One, Mul(compounding, cT.val)), RDiv(p.T, compounding)),
                     Pow(Add(One, Mul(compounding, ct.val)), RDiv(p.t, compounding))),
                     RDiv(compounding, RSub(p.T, p.t))), One), compounding))
        ELSE Return(Div(Log(Exp(Sub(Mul(cT.val, p.T), Mul(ct.val, p.t)))),
                        Sub(p.T, p.t)))

(***************************************************************************)
(* FRA                                                                     *)
(***************************************************************************)
\* the calendar date of a maturity or settlement given as T, for inception dtt
DateOf(dtt, T) == IF T.k = "str" THEN T.date ELSE dtt + T.v.n

\* FRA_check without the assertion that T and S have one type, a numeric S
\* beside a date string T read as a day offset
FRA_check_anyforms(t, T, S, tau, ZCB_init) ==
    IF T.k # "str" /\ ~IsNum(T) THEN "TypeError"
    ELSE IF S.k = "other" \/ (IsNum(T) /\ ~IsNum(S)) THEN "TypeError"
    ELSE IF IsNum(T) /\ tau # RDiv(RSub(S.v, T.v), Year) THEN "AssertionError"
    ELSE IF ~(DateOf(t, T) < DateOf(t, S)) THEN "AssertionError"
    ELSE IF t # ZCB_init.t THEN "AssertionError"
    ELSE ""

\* FRA_check without the assertion on the tau of the caller
FRA_check_anytau(t, T, S, tau, ZCB_init) ==
    IF T.k # S.k THEN "AssertionError"
    ELSE IF T.k # "str" /\ ~IsNum(T) THEN "TypeError"
    ELSE IF ~(DateOf(t, T) < DateOf(t, S)) THEN "AssertionError"
    ELSE IF t # ZCB_init.t THEN "AssertionError"
    ELSE ""

\* the assertions and type tests of FRA.__init__, in its order: the exception
\* of the first that fails, or "" when all pass
FRA_check(t, T, S, tau, ZCB_init) ==
    IF T.k # S.k THEN "AssertionError"
    ELSE IF T.k # "str" /\ ~IsNum(T) THEN "TypeError"
    ELSE IF IsNum(T) /\ tau # RDiv(RSub(S.v, T.v), Year) THEN "AssertionError"
    ELSE IF ~(DateOf(t, T) < DateOf(t, S)) THEN "AssertionError"
    ELSE IF t # ZCB_init.t THEN "AssertionError"
    ELSE ""

\* FRA(t, T, S, tau, N, ZCB_init, compounding): the object, or the exception.
\* t is the ordinal of the inception date string; a numeric T or S is whole.
FRA_init(t, T, S, tau, N, ZCB_init, compounding) ==
    LET dtt == t
        dtT == DateOf(dtt, T)
        dtS == DateOf(dtt, S)
        sT == IF T.k = "str" THEN Rat(dtT - dtt, DAYS_IN_YEAR) ELSE T.v
        sS == IF T.k = "str" THEN Rat(dtS - dtt, DAYS_IN_YEAR) ELSE S.v
        stau == IF T.k = "str" THEN Rat(dtS - dtT, DAYS_IN_YEAR) ELSE tau
        bad == FRA_check(t, T, S, tau, ZCB_init)
        ZCB_cur == get_curve(ZCB_init, "linear", "discount factor").val
        cT == Call(ZCB_cur, ZCB_init, RDiv(sT, Year))
        cS == Call(ZCB_cur, ZCB_init, RDiv(sS, Year))
    IN  IF bad # "" THEN Raise(bad)
        ELSE IF cT.st = "raised" THEN cT
        ELSE IF cS.st = "raised" THEN cS
        ELSE Return([k |-> "FRA", t |-> t, tau |-> stau, N |-> N,
                     ZCB_init |-> ZCB_init, compounding |-> compounding,
                     dtt |-> dtt, dtT |-> dtT, dtS |-> dtS, T |-> sT, S |-> sS,
                     K |-> Div(Sub(Div(cT.val, cS.val), One), stau)])

get_price(self) == Return(self.K)

\* set_price that takes a zero K for no price and keeps the old one
set_price_nonzero(self, K) == IF K = Zero THEN self ELSE [self EXCEPT !.K = K]

\* the FRA after set_price(K)
set_price(self, K) == [self EXCEPT !.K = K]

\* get_value with the times to maturity and settlement left in days
get_value_days(self, t, ZCB) ==
    LET ZCB_cur_t == get_curve(ZCB, "linear", "discount factor").val
        ty == IF IsNum(t) THEN t.v ELSE Rat(t.date - self.dtt, DAYS_IN_YEAR)
        cT == Call(ZCB_cur_t, ZCB, RSub(self.T, ty))
        cS == Call(ZCB_cur_t, ZCB, RSub(self.S, ty))
        r_t_TS == Div(Sub(Div(cT.val, cS.val), One), self.tau)
    IN  IF IsNum(t) /\ ~RLe(t.v, self.T) THEN Raise("AssertionError")
        ELSE IF t.k = "str" /\ ~(self.dtt <= t.date /\ t.date <= self.dtT)
        THEN Raise("AssertionError")
        ELSE IF t.k # "str" /\ ~IsNum(t) THEN Raise("TypeError")
        ELSE IF cT.st = "raised" THEN cT
        ELSE IF cS.st = "raised" THEN cS
        ELSE Return(Mul(Mul(self.N, self.tau), Sub(r_t_TS, self.K)))

\* get_value(t, ZCB): the value of the long position, or the exception
get_value(self, t, ZCB) ==
    LET ZCB_cur_t == get_curve(ZCB, "linear", "discount factor").val
        ty == IF IsNum(t) THEN t.v ELSE Rat(t.date - self.dtt, DAYS_IN_YEAR)
        cT == Call(ZCB_cur_t, ZCB, RDiv(RSub(self.T, ty), Year))
        cS == Call(ZCB_cur_t, ZCB, RDiv(RSub(self.S, ty), Year))
        r_t_TS == Div(Sub(Div(cT.val, cS.val), One), self.tau)
    IN  IF IsNum(t) /\ ~RLe(t.v, self.T) THEN Raise("AssertionError")
        ELSE IF t.k = "str" /\ ~(self.dtt <= t.date /\ t.date <= self.dtT)
        THEN Raise("AssertionError")
        ELSE IF t.k # "str" /\ ~IsNum(t) THEN Raise("TypeError")
        ELSE IF cT.st = "raised" THEN cT
        ELSE IF cS.st = "raised" THEN cS
        ELSE Return(Mul(Mul(self.N, self.tau), Sub(r_t_TS, self.K)))

(***************************************************************************)
(* The inputs the operations are called with.                              *)
(***************************************************************************)
\* a fifth of a year, in days
Step == DAYS_IN_YEAR \div 5

\* the ordinal of the reference date of the curves
Epoch == 2 * DAYS_IN_YEAR

Dates == {Epoch, Epoch + Step}

Half == Rat(1, 2)

\* compounding frequencies: continuous, and the default 1/2
Compoundings == {Zero, Half}

\* maturities in years, strictly increasing: 1, 2, ..., n
Spine(n) == [i \in 1..n |-> Int2R(i)]

SeqsUpTo(S, n) == UNION {[1..m -> S] : m \in 0..n}

\* yields in percent
Yields == {Zero, Hundred}

\* discount factors
Factors == {One, Rat(1, 4)}

Kinds == {"yield", "discount factor", "price"}

Rates(kind) == IF kind = "discount factor" THEN Factors ELSE Yields

Interpos == {"linear", "cubic"}

\* times in years, and date strings around the reference date t0
Times(t0) == {IntV(-1), IntV(1), FloatV(Rat(6, 5)), Str(t0 - Step), Str(t0), Str(t0 + DAYS_IN_YEAR)}

\* day offsets of maturity and settlement: 0, 1 and 1.2 years
Offsets == {0, 5 * Step, 6 * Step}

\* T and S of a FRA whose inception date is t
Terms(t) == {Str(t + o) : o \in Offsets} \cup {IntV(o) : o \in Offsets} \cup {Other}

Taus == {Rat(1, 5), One}

Notionals == {Hundred}

\* set_price arguments
Prices == {Rat(k, 10) : k \in 0..MaxPrice}

\* valuation times of a FRA whose inception date is t
ValueTimes(t) == {IntV(-Step), IntV(0), IntV(1), IntV(6 * Step), Str(t - Step), Str(t),
                  Str(t + 5 * Step), Str(t + 6 * Step), Other}

\* a curve of a later market, anchored at date d
LaterCurve(d) == ZCB_curve(d, Spine(2), <<Zero, Hundred>>, "yield", Half).val

(***************************************************************************)
(* The state machine.  curve is the ZCB_curve object and fra the FRA       *)
(* object, None before their construction; origin is the r_s_type curve    *)
(* was constructed with; override is the last argument of set_price;       *)
(* result is the last operation, its arguments and its outcome.            *)
(***************************************************************************)
Unset == [k |-> "unset"]

Init ==
    /\ curve = None
    /\ origin = "none"
    /\ fra = None
    /\ override = Unset
    /\ result = [op |-> "none"]

NewCurve(t, T_s, r_s, r_s_type, compounding) ==
    LET o == ZCB_curve(t, T_s, r_s, r_s_type, compounding)
    IN  /\ curve = None
        /\ curve' = IF o.st = "returned" THEN o.val ELSE None
        /\ origin' = IF o.st = "returned" THEN r_s_type ELSE "none"
        /\ result' = [op |-> "ZCB_curve", out |-> o]
        /\ UNCHANGED <<fra, override>>

\* a second curve, from the discount factors of the first
Rebuild ==
    /\ curve # None
    /\ result' = [op |-> "rebuild",
                  out |-> ZCB_curve(curve.t, curve.T_s, curve.dcf, "discount factor",
                                    curve.compounding)]
    /\ UNCHANGED <<curve, origin, fra, override>>

GetCurve(interpo, which) ==
    /\ curve # None
    /\ result' = [op |-> "get_curve", interpo |-> interpo, which |-> which,
                  out |-> get_curve(curve, interpo, which)]
    /\ UNCHANGED <<curve, origin, fra, override>>

GetDiscountFactor(t, T, interpo) ==
    /\ curve # None
    /\ result' = [op |-> "get_discount_factor", t |-> t, T |-> T, interpo |-> interpo,
                  out |-> get_discount_factor(curve, t, T, interpo)]
    /\ UNCHANGED <<curve, origin, fra, override>>

GetForwardRate(t, T, interpo, compounding) ==
    /\ curve # None
    /\ result' = [op |-> "get_forward_rate", t |-> t, T |-> T, interpo |-> interpo,
                  compounding |-> compounding,
                  out |-> get_forward_rate(curve, t, T, interpo, compounding)]
    /\ UNCHANGED <<curve, origin, fra, override>>

NewFRA(t, T, S, tau, N) ==
    LET o == FRA_init(t, T, S, tau, N, curve, Half)
    IN  /\ curve # None
        /\ fra = None
        /\ fra' = IF o.st = "returned" THEN o.val ELSE None
        /\ result' = [op |-> "FRA", t |-> t, T |-> T, S |-> S, tau |-> tau, out |-> o]
        /\ UNCHANGED <<curve, origin, override>>

GetPrice ==
    /\ fra # None
    /\ result' = [op |-> "get_price", out |-> get_price(fra)]
    /\ UNCHANGED <<curve, origin, fra, override>>

SetPrice(K) ==
    /\ fra # None
    /\ fra' = set_price(fra, K)
    /\ override' = K
    /\ result' = [op |-> "set_price", K |-> K, out |-> Return(None)]
    /\ UNCHANGED <<curve, origin>>

GetValue(t, ZCB) ==
    /\ fra # None
    /\ result' = [op |-> "get_value", t |-> t, ZCB |-> ZCB, out |-> get_value(fra, t, ZCB)]
    /\ UNCHANGED <<curve, origin, fra, override>>

Construct ==
    /\ curve = None
    /\ \E t \in {Epoch}, n \in 0..MaxLen, kind \in Kinds, c \in Compoundings :
         \E r_s \in SeqsUpTo(Rates(kind), MaxLen) : NewCurve(t, Spine(n), r_s, kind, c)

Query(times) ==
    \/ \E i \in Interpos, w \in {"yield", "discount factor", "price"} : GetCurve(i, w)
    \/ /\ curve # None
       /\ \E t \in times, T \in times, i \in Interpos :
            \/ GetDiscountFactor(t, T, i)
            \/ \E c \in Compoundings : GetForwardRate(t, T, i, c)

Contract ==
    \/ /\ curve # None
       /\ fra = None
       /\ \E t \in Dates, tau \in Taus, N \in Notionals :
            \E T \in Terms(t), S \in Terms(t) : NewFRA(t, T, S, tau, N)
    \/ GetPrice
    \/ \E K \in Prices : SetPrice(K)
    \/ /\ fra # None
       /\ \E t \in ValueTimes(fra.dtt), z \in {curve, LaterCurve(fra.dtt + Step)} :
            GetValue(t, z)

\* the curve alone, queried at every pair of Times
NextCurve ==
    \/ Construct
    \/ Rebuild
    \/ curve # None /\ Query(Times(curve.t))

\* the curve and a FRA on it, the curve queried at two times
Next ==
    \/ Construct
    \/ Rebuild
    \/ curve # None /\ Query({IntV(1), Str(curve.t + DAYS_IN_YEAR)})
    \/ Contract

SpecCurve == Init /\ [][NextCurve]_vars

Spec == Init /\ [][Next]_vars

(***************************************************************************)
(* Notions the claims are stated with.                                     *)
(***************************************************************************)
Returned == result.out.st = "returned"

Raised == result.out.st = "raised"

TimeQuery == result.op \in {"get_discount_factor", "get_forward_rate"}

\* a time argument of a curve query, in years from the reference date
YearsOf(x) == IF x.k = "str" THEN Rat(x.date - curve.t, DAYS_IN_YEAR) ELSE x.v

\* t is negative, T is not strictly after t, or a date precedes the reference date
BadTimes(t, T) ==
    \/ IsNum(t) /\ RLt(t.v, Zero)
    \/ ~RLt(YearsOf(t), YearsOf(T))
    \/ t.k = "str" /\ t.date < curve.t
    \/ T.k = "str" /\ T.date < curve.t

\* the curve's interpolated discount factor at x years
DF(z, x) == interp(x, z.T_s, z.dcf)

\* the simple forward rate between a and b years that the curve z implies
SimpleForward(z, a, b, tau) == Div(Sub(Div(DF(z, a), DF(z, b)), One), tau)

\* the K that get_price is to return: the last override, or else the fair rate
\* of the construction
ExpectedK ==
    IF override # Unset THEN override
    ELSE SimpleForward(fra.ZCB_init, RDiv(fra.T, Year), RDiv(fra.S, Year), fra.tau)

\* the valuation time of the last get_value, as get_value reads it
ValueTime == IF IsNum(result.t) THEN result.t.v
             ELSE Rat(result.t.date - fra.dtt, DAYS_IN_YEAR)

\* the last get_value was asked for a time outside [inception, maturity]
OutsideWindow ==
    \/ IsNum(result.t) /\ (RLt(result.t.v, Zero) \/ RLt(Int2R(fra.dtT - fra.dtt), result.t.v))
    \/ result.t.k = "str" /\ (result.t.date < fra.dtt \/ fra.dtT < result.t.date)

(***************************************************************************)
(* C1.  Round trip: a curve constructed from yields (in percent), rebuilt  *)
(* as 'discount factor' from its own discount factors with the same        *)
(* maturities and compounding, stores the original yields.                 *)
(***************************************************************************)
RoundTripYields ==
    (result.op = "rebuild" /\ origin = "yield" /\ Returned)
        => result.out.val.r_s = curve.r_s

(***************************************************************************)
(* C2.  get_discount_factor(t, T) and get_forward_rate(t, T) fail whenever *)
(* t is negative, T is not strictly greater than t, or a date argument     *)
(* precedes the reference date, in every combination of forms.             *)
(***************************************************************************)
BadTimesFail ==
    (TimeQuery /\ BadTimes(result.t, result.T)) => Raised

(***************************************************************************)
(* C3.  A FRA constructed from date strings equals the FRA constructed     *)
(* from the equivalent day offsets with tau = (S-T)/365: the same stored   *)
(* T and S (day offsets) and the same fair rate K.                         *)
(***************************************************************************)
DatesLikeOffsets ==
    (result.op = "FRA" /\ Returned /\ result.T.k = "str") =>
        LET e == FRA_init(result.t, IntV(result.T.date - result.t),
                          IntV(result.S.date - result.t),
                          Rat(result.S.date - result.T.date, DAYS_IN_YEAR),
                          fra.N, curve, fra.compounding)
        IN  /\ e.st = "returned"
            /\ fra.T = e.val.T
            /\ fra.S = e.val.S
            /\ fra.K = e.val.K

(***************************************************************************)
(* C4.  get_value(t, curve) fails whenever t lies outside the window       *)
(* [inception, T], for a number and for a date string, and fails with a    *)
(* type error when t is neither.                                           *)
(***************************************************************************)
OutsideWindowFails ==
    result.op = "get_value" =>
        /\ (result.t.k = "other" => result.out = Raise("TypeError"))
        /\ (result.t.k # "other" /\ OutsideWindow => Raised)

NonLinearNoResult ==
    (/\ result.op \in {"get_curve", "get_discount_factor", "get_forward_rate"}
     /\ result.interpo # "linear"
     /\ result.op = "get_curve" => result.which \in {"yield", "discount factor"}
     /\ TimeQuery => ~BadTimes(result.t, result.T))
        => result.out = Return(None)

(***************************************************************************)
(* C7.  Constructing a FRA with one of T and S a date string and the other *)
(* a number fails and produces no FRA.                                     *)
(***************************************************************************)
MixedForms == (result.T.k = "str" /\ IsNum(result.S)) \/ (IsNum(result.T) /\ result.S.k = "str")

MixedFormsFail ==
    (result.op = "FRA" /\ MixedForms) => (Raised /\ fra = None)

MixedFormsFailWitness ==
    /\ result.op = "FRA"
    /\ result.T.k = "str"
    /\ IsNum(result.S)
    /\ result.T.date < result.t + result.S.v.n
    /\ result.t = curve.t
    /\ Len(curve.T_s) > 0
    /\ Raised

(***************************************************************************)
(* C8.  Every FRA has its maturity date strictly before its settlement     *)
(* date, tau equal to the days between them over 365, and a construction   *)
(* curve anchored at its inception date, whatever is called on it; and the *)
(* construction fails when one of the three would not hold.                *)
(***************************************************************************)
FRAWellFormed ==
    /\ fra # None =>
        /\ fra.dtT < fra.dtS
        /\ fra.tau = Rat(fra.dtS - fra.dtT, DAYS_IN_YEAR)
        /\ fra.ZCB_init.t = fra.dtt
    /\ (result.op = "FRA" /\ result.T.k = result.S.k /\ result.T.k # "other") =>
        LET dT == IF IsNum(result.T) THEN result.t + result.T.v.n ELSE result.T.date
            dS == IF IsNum(result.S) THEN result.t + result.S.v.n ELSE result.S.date
        IN  (\/ ~(dT < dS)
             \/ IsNum(result.T) /\ result.tau # Rat(dS - dT, DAYS_IN_YEAR)
             \/ curve.t # result.t) => Raised

FRAWellFormedWitness ==
    /\ fra # None
    /\ result.op = "get_value"
    /\ Returned
    /\ override # Unset
    /\ fra.T = Int2R(5 * Step)

(***************************************************************************)
(* C9.  get_price returns the argument of the last set_price, or the K of  *)
(* the construction; set_price takes any value and changes K alone;        *)
(* get_price and get_value change nothing; get_value uses the current K.   *)
(***************************************************************************)
PriceReturn ==
    /\ result.op = "set_price" => (result.out = Return(None) /\ fra.K = result.K)
    /\ result.op = "get_price" => result.out = Return(ExpectedK)
    /\ (result.op = "get_value" /\ Returned) =>
         result.out.val =
            Mul(Mul(fra.N, fra.tau),
                Sub(SimpleForward(result.ZCB,
                                  RDiv(RSub(fra.T, ValueTime), Year),
                                  RDiv(RSub(fra.S, ValueTime), Year), fra.tau),
                    ExpectedK))

PriceStep ==
    /\ result'.op = "set_price" =>
        /\ fra' = [fra EXCEPT !.K = override']
        /\ curve' = curve
    /\ result'.op \in {"get_price", "get_value"} =>
        /\ fra' = fra
        /\ curve' = curve
        /\ override' = override

PriceFrame == []PriceReturn /\ [][PriceStep]_vars

PriceFrameWitness ==
    /\ result.op = "get_value"
    /\ Returned
    /\ override = Rat(1, 10)
    /\ result.out.val # Zero
    /\ result.ZCB # curve

(***************************************************************************)
(* C10.  A curve is read-only once constructed: no query, FRA construction *)
(* or valuation changes it; its maturities, yields and discount factors    *)
(* have one length, and its stored rate kind is 'yield'.                   *)
(***************************************************************************)
CurveStep ==
    /\ curve # None => curve' = curve
    /\ curve' # None =>
        /\ Len(curve'.T_s) = Len(curve'.r_s)
        /\ Len(curve'.T_s) = Len(curve'.dcf)
        /\ curve'.r_s_type = "yield"

CurveReadOnly == [][CurveStep]_vars

CurveReadOnlyWitness ==
    /\ curve # None
    /\ origin = "discount factor"
    /\ Len(curve.T_s) = 2
    /\ fra # None
    /\ result.op = "get_forward_rate"
    /\ Returned

====
